---------------------------- MODULE Spec2Model ----------------------------
(***************************************************************************)
(* A model of src/visualization.py: the height estimator, the geometry     *)
(* converter, the building cache (fetch path and load path), the spending  *)
(* aggregator, the colour scale mapper, the report generator and the       *)
(* client-side script of the generated page.                               *)
(*                                                                         *)
(* Numbers.  The program computes with Python floats.  The model computes  *)
(* with exact rationals [n |-> numerator, d |-> denominator > 0] in lowest *)
(* terms; float rounding is not modelled.  What is modelled of the float   *)
(* operations is their control behaviour: a Python float division by zero  *)
(* raises ZeroDivisionError, int() truncates toward zero, and JavaScript's *)
(* Math.floor rounds toward minus infinity.                                *)
(*                                                                         *)
(* Strings that the program edits or parses (OSM tag values, quarter and   *)
(* category labels) are sequences of one-character strings.                *)
(***************************************************************************)
EXTENDS Integers, Sequences, FiniteSets, TLC

VARIABLES
  pc,               \* position of the run being modelled
  building,         \* estimate_building_height / convert_building_data: the row
  height,           \* estimate_building_height: the returned height
  converted,        \* convert_building_data: the returned buildings_data
  color_in,         \* get_heatmap_color: (percentage, min_percentage, max_percentage)
  color_out,        \* get_heatmap_color: the result, or the exception
  city_names,       \* the configured city list
  fetch_i,          \* get_buildings_data, load=False: the loop index i
  buildings_data,   \* get_buildings_data: the list being built / the global
  pickle_file,      \* contents of buildings_data1.pkl
  city_coords,      \* get_city_coords: the CityEntry list
  df,               \* the transaction table
  quarters,         \* the quarter labels
  categories,       \* the category labels
  spending_data,    \* {quarter: {category: {city: amount}}}
  percentage_data,  \* {quarter: {category: {city: percentage}}}
  raised,           \* the exception that ended the modelled call, or "none"
  scale_ranges,     \* generate_citymaps: {quarter: {category: {min, max}}}
  map_files,        \* generate_citymaps: {quarter: {category: {city_idx: filename}}}
  citymaps,         \* the files under citymaps/: filename -> fill colour written
  server_color,     \* generate_citymaps: the colour computed per triple
  page              \* the page after updateHeatmap: selection and colours shown

heightVars == <<building, height, converted>>
colorVars  == <<color_in, color_out>>
cacheVars  == <<city_names, fetch_i, buildings_data, pickle_file, city_coords>>
aggVars    == <<df, quarters, categories, spending_data, percentage_data>>
mapVars    == <<scale_ranges, map_files, citymaps, server_color, page>>
vars == <<pc, heightVars, colorVars, cacheVars, aggVars, mapVars, raised>>

None == "none"

-----------------------------------------------------------------------------
(* Exact rationals standing for the program's floats.                      *)

Abs(x) == IF x < 0 THEN -x ELSE x

RECURSIVE GCD(_, _)
GCD(a, b) == IF b = 0 THEN a ELSE GCD(b, a % b)

\* The rational n/d (d # 0) in lowest terms with a positive denominator.
Rat(n, d) ==
  LET g == GCD(Abs(n), Abs(d))
      s == IF d < 0 THEN -1 ELSE 1
  IN  [n |-> s * (n \div g), d |-> s * (d \div g)]

RInt(k) == [n |-> k, d |-> 1]
RAdd(a, b) == Rat(a.n * b.d + b.n * a.d, a.d * b.d)
RSub(a, b) == Rat(a.n * b.d - b.n * a.d, a.d * b.d)
RMul(a, b) == Rat(a.n * b.n, a.d * b.d)
RLt(a, b) == a.n * b.d < b.n * a.d
RLe(a, b) == a.n * b.d <= b.n * a.d
RMin(a, b) == IF RLt(b, a) THEN b ELSE a
RMax(a, b) == IF RLt(a, b) THEN b ELSE a
\* a / b for b # 0; the callers model the ZeroDivisionError of b = 0.
RDiv(a, b) == Rat(a.n * b.d, a.d * b.n)

\* Python's int(x): truncation toward zero.
PyInt(x) == IF x.n >= 0 THEN x.n \div x.d ELSE -((-x.n) \div x.d)
\* JavaScript's Math.floor(x).
MathFloor(x) == x.n \div x.d

RECURSIVE RSumSeq(_)
RSumSeq(s) == IF s = <<>> THEN RInt(0) ELSE RAdd(s[1], RSumSeq(Tail(s)))

RECURSIVE RMinSeq(_)
RMinSeq(s) == IF Len(s) = 1 THEN s[1] ELSE RMin(s[1], RMinSeq(Tail(s)))

RECURSIVE RMaxSeq(_)
RMaxSeq(s) == IF Len(s) = 1 THEN s[1] ELSE RMax(s[1], RMaxSeq(Tail(s)))

-----------------------------------------------------------------------------
(* Python string operations on sequences of characters.                    *)

IsPrefix(p, s) == Len(p) <= Len(s) /\ SubSeq(s, 1, Len(p)) = p

\* str.replace(old, new) for a non-empty old: leftmost, non-overlapping.
RECURSIVE Replace(_, _, _)
Replace(s, old, new) ==
  IF s = <<>> THEN <<>>
  ELSE IF IsPrefix(old, s)
       THEN new \o Replace(SubSeq(s, Len(old) + 1, Len(s)), old, new)
       ELSE <<s[1]>> \o Replace(Tail(s), old, new)

RECURSIVE LStrip(_)
LStrip(s) == IF s # <<>> /\ s[1] = " " THEN LStrip(Tail(s)) ELSE s

RECURSIVE RStrip(_)
RStrip(s) ==
  IF s # <<>> /\ s[Len(s)] = " " THEN RStrip(SubSeq(s, 1, Len(s) - 1)) ELSE s

\* str.strip()
Strip(s) == LStrip(RStrip(s))

DigitChars == <<"0", "1", "2", "3", "4", "5", "6", "7", "8", "9">>
IsDigit(c) == \E i \in 1..10 : DigitChars[i] = c
DigitValue(c) == (CHOOSE i \in 1..10 : DigitChars[i] = c) - 1

RECURSIVE DigitsValue(_)
DigitsValue(s) ==
  IF s = <<>> THEN 0
  ELSE 10 * DigitsValue(SubSeq(s, 1, Len(s) - 1)) + DigitValue(s[Len(s)])

\* The decimal numeral of a natural number, as str() writes it.
RECURSIVE Numeral(_)
Numeral(k) ==
  IF k < 10 THEN <<DigitChars[k + 1]>>
  ELSE Numeral(k \div 10) \o <<DigitChars[(k % 10) + 1]>>

\* float(s) on the strings of the model's alphabet (digits, sign, space and
\* letters; no ".", "e", "_", "inf" or "nan" can be spelled): surrounding
\* whitespace is ignored, then an optional sign and one or more digits.  Any
\* other string raises ValueError: ok = FALSE.
PyFloat(s) ==
  LET t == Strip(s)
      signed == t # <<>> /\ t[1] \in {"-", "+"}
      digits == IF signed THEN Tail(t) ELSE t
      valid == digits # <<>> /\ \A i \in 1..Len(digits) : IsDigit(digits[i])
      mag == IF valid THEN DigitsValue(digits) ELSE 0
  IN  [ok |-> valid,
       value |-> RInt(IF signed /\ t[1] = "-" THEN -mag ELSE mag)]

-----------------------------------------------------------------------------
(* Height estimator and geometry converter.                                *)

\* A tag the row does not carry (the key is missing, or its value is NaN).
NoTag == <<"<NaN>">>

\* pd.notna(building[key]) together with `key in building`.
HasTag(tag) == tag # NoTag

HighTypes == {"commercial", "office", "retail", "hotel", "apartments"}
MediumTypes == {"industrial", "warehouse", "school", "hospital", "public"}
LowTypes == {"house", "residential", "detached", "terrace", "bungalow"}
VeryLowTypes == {"garage", "shed", "cabin", "hut", "roof"}
ReligiousTypes == {"church", "cathedral", "mosque", "temple", "shrine"}

\* np.random.uniform(low, high) draws from [low, high): the low end, the
\* middle and a value just under the high end stand for the draw.
Uniform(low, high) ==
  {RInt(low), Rat(low + high, 2), Rat(2 * high - 1, 2)}

\* The height explicit in the "height" tag: parsed after removing "m" and
\* "ft" and stripping; ok = FALSE when float() raises (the bare except).
ExplicitHeight(b) ==
  PyFloat(Strip(Replace(Replace(b.height, <<"m">>, <<>>), <<"f", "t">>, <<>>)))

\* The levels in the "building:levels" tag; ok = FALSE when float() raises.
ExplicitLevels(b) == PyFloat(b.levels)

\* building.get("building", "yes")
BuildingType(b) == IF b.type = None THEN "yes" ELSE b.type

TypeHeights(building_type) ==
  IF building_type \in HighTypes THEN Uniform(20, 40)
  ELSE IF building_type \in MediumTypes THEN Uniform(10, 20)
  ELSE IF building_type \in LowTypes THEN Uniform(5, 12)
  ELSE IF building_type \in VeryLowTypes THEN Uniform(3, 6)
  ELSE IF building_type \in ReligiousTypes THEN Uniform(15, 30)
  ELSE Uniform(8, 18)

\* EstimateBuildingHeightValues with the levels rule written as an elif of
\* the height rule: a row that carries a height tag never reaches it.
EstimateBuildingHeightValuesElif(b) ==
  IF HasTag(b.height)
  THEN IF ExplicitHeight(b).ok
       THEN LET h == ExplicitHeight(b).value
            IN  {IF h.n > 0 THEN h ELSE RInt(15)}
       ELSE TypeHeights(BuildingType(b))
  ELSE IF HasTag(b.levels) /\ ExplicitLevels(b).ok
       THEN {RMul(ExplicitLevels(b).value, Rat(7, 2))}
       ELSE TypeHeights(BuildingType(b))

\* estimate_building_height(building): the set of heights it can return.
EstimateBuildingHeightValues(b) ==
  IF HasTag(b.height) /\ ExplicitHeight(b).ok
  THEN LET h == ExplicitHeight(b).value
       IN  {IF h.n > 0 THEN h ELSE RInt(15)}
  ELSE IF HasTag(b.levels) /\ ExplicitLevels(b).ok
       THEN {RMul(ExplicitLevels(b).value, Rat(7, 2))}
       ELSE TypeHeights(BuildingType(b))

\* The records convert_building_data appends for one row: one for a Polygon,
\* one per part of a MultiPolygon, all with the row's one height, and none
\* for any other geometry.  A ring is named by the part it is the exterior of.
RowRecords(b, h) ==
  IF b.geom_type = "Polygon"
  THEN <<[coordinates |-> <<1>>, height |-> h]>>
  ELSE IF b.geom_type = "MultiPolygon"
       THEN [k \in 1..b.parts |-> [coordinates |-> <<k>>, height |-> h]]
       ELSE <<>>

\* --- the rows the model draws -------------------------------------------
TagNumbers == {0, 4, 15}
TagSigns == {<<>>, <<"-">>}
HeightSuffixes == {<<>>, <<"m">>, <<"f", "t">>, <<" ">>, <<"x">>}
LevelsSuffixes == {<<>>, <<"m">>}
MultiPolygonParts == 2

HeightTags ==
  {NoTag, <<"x", "m">>} \cup
  {s \o Numeral(k) \o u : s \in TagSigns, k \in TagNumbers, u \in HeightSuffixes}
LevelsTags ==
  {NoTag} \cup
  {s \o Numeral(k) \o u : s \in TagSigns, k \in TagNumbers, u \in LevelsSuffixes}
TypeTags ==
  {None, "yes"} \cup HighTypes \cup MediumTypes \cup LowTypes
    \cup VeryLowTypes \cup ReligiousTypes
GeomTypes == {"Polygon", "MultiPolygon", "LineString"}

Rows ==
  [height : HeightTags, levels : LevelsTags, type : TypeTags,
   geom_type : GeomTypes, parts : {MultiPolygonParts}]

NoRow == [height |-> NoTag, levels |-> NoTag, type |-> None,
          geom_type |-> "LineString", parts |-> 0]

\* --- actions --------------------------------------------------------------
\* A direct call estimate_building_height(building).
EstimateBuildingHeight ==
  /\ pc = "height_start"
  /\ \E h \in EstimateBuildingHeightValues(building) : height' = h
  /\ pc' = "height_estimated"
  /\ UNCHANGED <<building, converted, colorVars, cacheVars, aggVars, mapVars, raised>>

\* convert_building_data(buildings) on a frame holding the one row `building`:
\* the loop body runs once, estimating the height and appending the records.
ConvertBuildingData ==
  /\ pc = "height_start"
  /\ \E h \in EstimateBuildingHeightValues(building) :
       /\ height' = h
       /\ converted' = RowRecords(building, h)
  /\ pc' = "height_converted"
  /\ UNCHANGED <<building, colorVars, cacheVars, aggVars, mapVars, raised>>

-----------------------------------------------------------------------------
(* Colour scale mapper: the server's get_heatmap_color and the page's      *)
(* getHeatmapColor.                                                        *)

\* (percentage - min_percentage) / (max_percentage - min_percentage)
Normalized(percentage, min_percentage, max_percentage) ==
  RDiv(RSub(percentage, min_percentage), RSub(max_percentage, min_percentage))

\* normalized * 4 * 255 and its three siblings, before rounding.
Times4x255(x) == RMul(RMul(x, RInt(4)), RInt(255))

\* ServerGradient with the first segment's green starting at 0, the + 200
\* left out.
ServerGradientNoOffset(normalized) ==
  IF RLt(normalized, Rat(1, 4))
  THEN <<0, PyInt(Times4x255(normalized)), 200>>
  ELSE IF RLt(normalized, Rat(1, 2))
       THEN <<0, 255, PyInt(Times4x255(RSub(Rat(1, 2), normalized)))>>
       ELSE IF RLt(normalized, Rat(3, 4))
            THEN <<PyInt(Times4x255(RSub(normalized, Rat(1, 2)))), 255, 0>>
            ELSE <<255, PyInt(Times4x255(RSub(RInt(1), normalized))), 0>>

\* The gradient of get_heatmap_color for a computed normalized position.
ServerGradient(normalized) ==
  IF RLt(normalized, Rat(1, 4))
  THEN <<0, PyInt(Times4x255(normalized)) + 200, 200>>
  ELSE IF RLt(normalized, Rat(1, 2))
       THEN <<0, 255, PyInt(Times4x255(RSub(Rat(1, 2), normalized)))>>
       ELSE IF RLt(normalized, Rat(3, 4))
            THEN <<PyInt(Times4x255(RSub(normalized, Rat(1, 2)))), 255, 0>>
            ELSE <<255, PyInt(Times4x255(RSub(RInt(1), normalized))), 0>>

\* get_heatmap_color(percentage, min_percentage, max_percentage): the colour,
\* or the ZeroDivisionError of the unguarded division.
GetHeatmapColorResult(percentage, min_percentage, max_percentage) ==
  IF max_percentage = min_percentage
  THEN [raised |-> "ZeroDivisionError", color |-> <<>>]
  ELSE [raised |-> None,
        color |-> ServerGradient(
                    Normalized(percentage, min_percentage, max_percentage))]

\* ClientGradient with Math.round (the floor of x + 1/2) in place of
\* Math.floor.
ClientGradientRounded(normalized) ==
  LET MathRound(x) == MathFloor(RAdd(x, Rat(1, 2)))
  IN  IF RLt(normalized, Rat(1, 4))
      THEN <<0, MathRound(Times4x255(normalized)) + 200, 200>>
      ELSE IF RLt(normalized, Rat(1, 2))
           THEN <<0, 255, MathRound(Times4x255(RSub(Rat(1, 2), normalized)))>>
           ELSE IF RLt(normalized, Rat(3, 4))
                THEN <<MathRound(Times4x255(RSub(normalized, Rat(1, 2)))), 255, 0>>
                ELSE <<255, MathRound(Times4x255(RSub(RInt(1), normalized))), 0>>

\* The gradient of the page's getHeatmapColor.
ClientGradient(normalized) ==
  IF RLt(normalized, Rat(1, 4))
  THEN <<0, MathFloor(Times4x255(normalized)) + 200, 200>>
  ELSE IF RLt(normalized, Rat(1, 2))
       THEN <<0, 255, MathFloor(Times4x255(RSub(Rat(1, 2), normalized)))>>
       ELSE IF RLt(normalized, Rat(3, 4))
            THEN <<MathFloor(Times4x255(RSub(normalized, Rat(1, 2)))), 255, 0>>
            ELSE <<255, MathFloor(Times4x255(RSub(RInt(1), normalized))), 0>>

\* getHeatmapColor(intensity, minIntensity, maxIntensity) of the page script.
ClientHeatmapColor(intensity, minIntensity, maxIntensity) ==
  ClientGradient(
    IF maxIntensity = minIntensity
    THEN Rat(1, 2)
    ELSE Normalized(intensity, minIntensity, maxIntensity))

\* --- the arguments the model draws -----------------------------------------
MaxColorGrid == 8
\* Percentages lie on the half grid, so that every (min + max) / 2 is drawn.
ColorArguments ==
  [percentage : {Rat(k, 2) : k \in -2..(2 * MaxColorGrid + 2)},
   min_percentage : {RInt(k) : k \in 0..MaxColorGrid},
   max_percentage : {RInt(k) : k \in 0..MaxColorGrid}]

NoColorArguments ==
  [percentage |-> RInt(0), min_percentage |-> RInt(0), max_percentage |-> RInt(0)]
NoColorResult == [raised |-> None, color |-> <<>>]

\* A call get_heatmap_color(percentage, min_percentage, max_percentage).
GetHeatmapColor ==
  /\ pc = "color_start"
  /\ color_out' = GetHeatmapColorResult(color_in.percentage,
                     color_in.min_percentage, color_in.max_percentage)
  /\ pc' = "color_done"
  /\ UNCHANGED <<color_in, heightVars, cacheVars, aggVars, mapVars, raised>>

-----------------------------------------------------------------------------
(* Building cache and city geocoder.                                       *)

\* city_names of __main__.
ConfiguredCities == <<"Bengaluru, India", "Delhi, India", "Ahmedabad, India">>

\* The building list convert_building_data returns for a place: n records,
\* whose coordinates lie in that place.
Buildings(city, n) ==
  [k \in 1..n |-> [coordinates |-> <<city, k>>, height |-> RInt(10)]]

\* Whether every record of a building list lies in `city`.
LiesIn(city_buildings, city) ==
  \A k \in 1..Len(city_buildings) : city_buildings[k].coordinates[1] = city

save_rate == 10

\* The number of records the provider's footprints of the i-th place (from 0)
\* convert to.
PlaceBuildings(i) == 1 + (i % 3)

\* One iteration of the fetch loop of get_buildings_data(city_names, False):
\* the provider returns data, which is converted and appended, or raises,
\* which is printed; then the checkpoint is written when i % save_rate == 0.
FetchCity ==
  /\ pc = "fetch_loop"
  /\ fetch_i < Len(city_names)
  /\ \E found \in BOOLEAN :
       LET city == city_names[fetch_i + 1]
           appended ==
             IF found
             THEN Append(buildings_data, Buildings(city, PlaceBuildings(fetch_i)))
             ELSE buildings_data
       IN  /\ buildings_data' = appended
           /\ pickle_file' = IF fetch_i % save_rate = 0 THEN appended
                             ELSE pickle_file
  /\ fetch_i' = fetch_i + 1
  /\ UNCHANGED <<pc, city_names, city_coords, heightVars, colorVars,
                 aggVars, mapVars, raised>>

\* The end of the fetch loop: the final write, and the return.
FetchFinish ==
  /\ pc = "fetch_loop"
  /\ fetch_i = Len(city_names)
  /\ pickle_file' = buildings_data
  /\ pc' = "buildings_ready"
  /\ UNCHANGED <<city_names, fetch_i, buildings_data, city_coords, heightVars,
                 colorVars, aggVars, mapVars, raised>>

\* list.sort(key=lambda x: len(x[1]), reverse=True): a stable sort, so pairs
\* of equal length keep their order.  Insertion into a sorted list, after the
\* pairs that are at least as long.
RECURSIVE InsertPair(_, _)
InsertPair(pair, sorted) ==
  IF sorted = <<>> THEN <<pair>>
  ELSE IF Len(sorted[1][2]) >= Len(pair[2])
       THEN <<sorted[1]>> \o InsertPair(pair, Tail(sorted))
       ELSE <<pair>> \o sorted

RECURSIVE SortPairs(_)
SortPairs(pairs) ==
  IF pairs = <<>> THEN <<>>
  ELSE InsertPair(pairs[Len(pairs)], SortPairs(SubSeq(pairs, 1, Len(pairs) - 1)))

Smaller(a, b) == IF a < b THEN a ELSE b

\* zip(xs, ys)
Zip(xs, ys) == [i \in 1..Smaller(Len(xs), Len(ys)) |-> <<xs[i], ys[i]>>]

\* What get_buildings_data(city_names, True) returns: the building lists of
\* the sorted pairs.  The sorted names are bound to the function's local
\* city_names and are dropped on return.
LoadedBuildings(names, blob) ==
  LET city_building_pairs == SortPairs(Zip(names, blob))
  IN  [i \in 1..Len(city_building_pairs) |-> city_building_pairs[i][2]]

\* buildings_data = get_buildings_data(city_names, True) in __main__, for a
\* non-empty cache file.
LoadBuildingsData ==
  /\ pc = "load_start"
  /\ buildings_data' = LoadedBuildings(city_names, pickle_file)
  /\ pc' = "buildings_ready"
  /\ UNCHANGED <<city_names, fetch_i, pickle_file, city_coords, heightVars,
                 colorVars, aggVars, mapVars, raised>>

BuildingCap == 20000

\* s[:stop] for a stop of either sign.
SliceTo(s, stop) ==
  LET n == IF stop >= 0 THEN Smaller(stop, Len(s))
           ELSE IF Len(s) + stop > 0 THEN Len(s) + stop ELSE 0
  IN  SubSeq(s, 1, n)

\* city_buildings[:min(len(city_buildings)-1, 20000)]
CityBuildingsSubset(city_buildings) ==
  SliceTo(city_buildings, Smaller(Len(city_buildings) - 1, BuildingCap))

\* The centroid the geocoder returns for a place.
Centroid == [lat |-> RInt(13), lon |-> RInt(77)]

\* The coordinates get_city_coords settles on: the centroid, overridden for
\* two cities, or (0.0, 0.0) when the geocoder raised.
CityLatLon(city_name, geocoded) ==
  IF ~geocoded THEN [lat |-> RInt(0), lon |-> RInt(0)]
  ELSE IF city_name = "Ahmedabad, India"
       THEN [lat |-> Rat(23021537, 1000000), lon |-> Rat(72580057, 1000000)]
       ELSE IF city_name = "Delhi, India"
            THEN [lat |-> Rat(286448, 10000), lon |-> Rat(772164, 10000)]
            ELSE Centroid

\* get_city_coords(city_names), reading the global buildings_data; geocoded[i]
\* tells whether the geocoder answered for the i-th name.
CityCoords(names, data, geocoded) ==
  LET pairs == Zip(names, SliceTo(data, Len(names)))
  IN  [i \in 1..Len(pairs) |->
         [name |-> pairs[i][1],
          lat |-> CityLatLon(pairs[i][1], geocoded[i]).lat,
          lon |-> CityLatLon(pairs[i][1], geocoded[i]).lon,
          buildings |-> CityBuildingsSubset(pairs[i][2]),
          index |-> i - 1]]

GetCityCoords ==
  /\ pc = "buildings_ready"
  /\ \E geocoded \in [1..Len(city_names) -> BOOLEAN] :
       city_coords' = CityCoords(city_names, buildings_data, geocoded)
  /\ pc' = "coords_ready"
  /\ UNCHANGED <<city_names, fetch_i, buildings_data, pickle_file, heightVars,
                 colorVars, aggVars, mapVars, raised>>

-----------------------------------------------------------------------------
(* Labels, and Python's sorted() on them.                                  *)

AllTime == <<"A", "l", "l", " ", "T", "i", "m", "e">>
AllCategories ==
  <<"A", "l", "l", " ", "C", "a", "t", "e", "g", "o", "r", "i", "e", "s">>

\* The characters of the labels, in code point order.
CharOrder ==
  <<" ", "-", "/", "0", "1", "2", "3", "4", "5", "6", "7", "8", "9",
    "A", "B", "C", "F", "Q", "T", "_",
    "a", "d", "e", "g", "i", "l", "m", "o", "r", "s", "t", "u">>
CodePoint(c) == CHOOSE i \in 1..Len(CharOrder) : CharOrder[i] = c

\* a < b for Python strings.
RECURSIVE StrLt(_, _)
StrLt(a, b) ==
  IF b = <<>> THEN FALSE
  ELSE IF a = <<>> THEN TRUE
  ELSE IF a[1] = b[1] THEN StrLt(Tail(a), Tail(b))
  ELSE CodePoint(a[1]) < CodePoint(b[1])

\* sorted(labels) for a set of distinct labels.
RECURSIVE Sorted(_)
Sorted(labels) ==
  IF labels = {} THEN <<>>
  ELSE LET first == CHOOSE a \in labels : \A b \in labels \ {a} : StrLt(a, b)
       IN  <<first>> \o Sorted(labels \ {first})

SeqToSet(s) == {s[i] : i \in 1..Len(s)}

-----------------------------------------------------------------------------
(* Spending aggregator.                                                    *)

\* df["Exp Type"].unique() and df["YearQuarter"].unique()
ExpTypesOf(table) == {r.ExpType : r \in table}
YearQuartersOf(table) == {r.YearQuarter : r \in table}

\* ["All Categories"] + sorted(df["Exp Type"].unique().tolist())
CategoriesOf(table) == <<AllCategories>> \o Sorted(ExpTypesOf(table))
\* ["All Time"] + sorted(df["YearQuarter"].unique().tolist())
QuartersOf(table) == <<AllTime>> \o Sorted(YearQuartersOf(table))

\* Series.sum() of the Amount column: 0 for no rows.
RECURSIVE AmountSum(_)
AmountSum(rows) ==
  IF rows = {} THEN 0
  ELSE LET r == CHOOSE x \in rows : TRUE
       IN  r.Amount + AmountSum(rows \ {r})

\* quarter_df
QuarterDf(table, quarter) ==
  IF quarter = AllTime THEN table
  ELSE {r \in table : r.YearQuarter = quarter}

\* TotalSpending taken over df instead of quarter_df: the quarter filter is
\* forgotten for the totals.
TotalSpendingAllQuarters(table, quarter, city_name) ==
  AmountSum({r \in table : r.City = city_name})

\* total_spending[city_name] for a quarter
TotalSpending(table, quarter, city_name) ==
  AmountSum({r \in QuarterDf(table, quarter) : r.City = city_name})

\* spending of one category
CategorySpending(table, quarter, category, city_name) ==
  AmountSum({r \in QuarterDf(table, quarter) :
               r.City = city_name /\ r.ExpType = category})

\* (spending / total_spending[city_name]) * 100, for a nonzero total
Percentage(spending, total) ==
  RMul(RDiv(RInt(spending), RInt(total)), RInt(100))

\* Whether the division of line 160 is reached with a zero divisor: some
\* category exists, and some city's total of some quarter is zero.
DividesByZero(table, names, qs) ==
  /\ ExpTypesOf(table) # {}
  /\ \E i \in 1..Len(qs), j \in 1..Len(names) :
       TotalSpending(table, qs[i], names[j]) = 0

SpendingTable(table, names, qs) ==
  [quarter \in SeqToSet(qs) |->
    [category \in {AllCategories} \cup ExpTypesOf(table) |->
      [city_name \in SeqToSet(names) |->
        IF category = AllCategories
        THEN RInt(TotalSpending(table, quarter, city_name))
        ELSE RInt(CategorySpending(table, quarter, category, city_name))]]]

PercentageTable(table, names, qs) ==
  [quarter \in SeqToSet(qs) |->
    [category \in {AllCategories} \cup ExpTypesOf(table) |->
      [city_name \in SeqToSet(names) |->
        IF category = AllCategories
        THEN RInt(100)
        ELSE Percentage(CategorySpending(table, quarter, category, city_name),
                        TotalSpending(table, quarter, city_name))]]]

NoTable == <<>>

\* __main__, lines 329-333: the labels are read off the table, and
\* calculate_spending_by_category_and_quarter(df, city_names, quarters) either
\* returns the two tables or ends in the ZeroDivisionError.
CalculateSpending ==
  /\ pc = "aggregate_start"
  /\ quarters' = QuartersOf(df)
  /\ categories' = CategoriesOf(df)
  /\ IF DividesByZero(df, city_names, QuartersOf(df))
     THEN /\ raised' = "ZeroDivisionError"
          /\ UNCHANGED <<spending_data, percentage_data>>
     ELSE /\ spending_data' = SpendingTable(df, city_names, QuartersOf(df))
          /\ percentage_data' = PercentageTable(df, city_names, QuartersOf(df))
          /\ UNCHANGED raised
  /\ pc' = "aggregate_done"
  /\ UNCHANGED <<df, city_names, fetch_i, buildings_data, pickle_file,
                 city_coords, heightVars, colorVars, mapVars>>

-----------------------------------------------------------------------------
(* Report generator.                                                       *)

\* ScaleRange without lines 277-278: the window stays the mean +- 1.0 and is
\* not widened to the extreme values.
ScaleRangeMeanBand(percentage_values) ==
  LET avg_percentage ==
        RDiv(RSumSeq(percentage_values), RInt(Len(percentage_values)))
  IN  [min |-> RSub(avg_percentage, RInt(1)),
       max |-> RAdd(avg_percentage, RInt(1))]

\* Lines 272-278: the scale window of one slice, from the percentages of the
\* cities (a non-empty list): the mean +- 1.0, widened to the extreme values.
ScaleRange(percentage_values) ==
  LET avg_percentage ==
        RDiv(RSumSeq(percentage_values), RInt(Len(percentage_values)))
  IN  [min |-> RMin(RMinSeq(percentage_values), RSub(avg_percentage, RInt(1))),
       max |-> RMax(RMaxSeq(percentage_values), RAdd(avg_percentage, RInt(1)))]

\* percentage_values of a slice
PercentageValues(table, coords, quarter, category) ==
  [i \in 1..Len(coords) |-> table[quarter][category][coords[i].name]]

\* quarter.replace(" ", "_")
SafeQuarter(quarter) == Replace(quarter, <<" ">>, <<"_">>)
\* category.replace(" ", "_").replace("/", "-")
SafeCategory(category) ==
  Replace(Replace(category, <<" ">>, <<"_">>), <<"/">>, <<"-">>)

\* f"citymaps/map_q_{safe_quarter}_city_{city_idx}_cat_{safe_category}.html";
\* the fixed pieces of the name are single elements, the labels and the index
\* are spelled out.
MapFilename(quarter, category, city_idx) ==
  <<"citymaps/map_q_">> \o SafeQuarter(quarter) \o <<"_city_">>
    \o Numeral(city_idx) \o <<"_cat_">> \o SafeCategory(category) \o <<".html">>

\* The city_idx values of the entries, and the entry that carries one.
CityIndexSet(coords) == {coords[i].index : i \in 1..Len(coords)}
PositionOf(coords, city_idx) ==
  CHOOSE i \in 1..Len(coords) : coords[i].index = city_idx

\* The (quarter, category, city) triples in the order of the three nested
\* loops.
LoopOrder(qs, cats, coords) ==
  [k \in 1..(Len(qs) * Len(cats) * Len(coords)) |->
     [quarter |-> qs[((k - 1) \div (Len(cats) * Len(coords))) + 1],
      category |-> cats[(((k - 1) \div Len(coords)) % Len(cats)) + 1],
      i |-> ((k - 1) % Len(coords)) + 1]]

\* scale_ranges as the loops fill it.
ScaleRanges(table, coords, qs, cats) ==
  [quarter \in SeqToSet(qs) |->
    [category \in SeqToSet(cats) |->
      ScaleRange(PercentageValues(table, coords, quarter, category))]]

\* Line 289 for every triple: get_heatmap_color on the city's percentage and
\* the slice's range.
SliceColors(table, coords, qs, cats) ==
  LET ranges == ScaleRanges(table, coords, qs, cats)
  IN  [quarter \in SeqToSet(qs) |->
        [category \in SeqToSet(cats) |->
          [city_idx \in CityIndexSet(coords) |->
            GetHeatmapColorResult(
              table[quarter][category][coords[PositionOf(coords, city_idx)].name],
              ranges[quarter][category].min, ranges[quarter][category].max)]]]

\* map_files as the loops fill it.
MapFiles(coords, qs, cats) ==
  [quarter \in SeqToSet(qs) |->
    [category \in SeqToSet(cats) |->
      [city_idx \in CityIndexSet(coords) |->
        MapFilename(quarter, category, city_idx)]]]

\* The files under citymaps/ after all writes of lines 304-305: each name
\* holds what the last write to it put there, shown by the fill colour of its
\* layer and the city whose buildings it draws.
WrittenFiles(coords, qs, cats, colors) ==
  LET order == LoopOrder(qs, cats, coords)
      names == [k \in 1..Len(order) |->
                  MapFilename(order[k].quarter, order[k].category,
                              coords[order[k].i].index)]
      last == [f \in SeqToSet(names) |->
                 CHOOSE k \in 1..Len(order) :
                   /\ names[k] = f
                   /\ \A j \in (k + 1)..Len(order) : names[j] # f]
  IN  [f \in SeqToSet(names) |->
         [color |-> colors[order[last[f]].quarter][order[last[f]].category][
                      coords[order[last[f]].i].index].color,
          city |-> coords[order[last[f]].i].name]]

\* generate_citymaps(quarters, categories, percentage_data, city_coords,
\* spending_data) for a non-empty city_coords: it returns scale_ranges and
\* map_files, having written the files, or ends in the ZeroDivisionError of
\* get_heatmap_color.
GenerateCitymaps ==
  /\ pc = "maps_start"
  /\ LET colors == SliceColors(percentage_data, city_coords, quarters, categories)
     IN  IF \E quarter \in SeqToSet(quarters), category \in SeqToSet(categories),
               city_idx \in CityIndexSet(city_coords) :
                 colors[quarter][category][city_idx].raised # None
         THEN /\ raised' = "ZeroDivisionError"
              /\ UNCHANGED <<scale_ranges, map_files, citymaps, server_color>>
         ELSE /\ scale_ranges' = ScaleRanges(percentage_data, city_coords,
                                             quarters, categories)
              /\ map_files' = MapFiles(city_coords, quarters, categories)
              /\ server_color' =
                   [quarter \in SeqToSet(quarters) |->
                     [category \in SeqToSet(categories) |->
                       [city_idx \in CityIndexSet(city_coords) |->
                         colors[quarter][category][city_idx].color]]]
              /\ citymaps' = WrittenFiles(city_coords, quarters, categories, colors)
              /\ UNCHANGED raised
  /\ pc' = "maps_done"
  /\ UNCHANGED <<page, heightVars, colorVars, cacheVars, aggVars>>

\* updateHeatmap() of the page for the selected options: for each city index
\* the colour recomputed from the embedded percentageData and scaleRanges, and
\* the artifact put in the city's iframe.  json.dumps writes the integer keys
\* of map_files as their numerals, and the script's categoryMaps[cityIdx]
\* looks the number up as its numeral.
HeatmapShown(quarter, category) ==
  LET minPercentage == scale_ranges[quarter][category].min
      maxPercentage == scale_ranges[quarter][category].max
      cityNames == [i \in 1..Len(city_coords) |-> city_coords[i].name]
      cityIndices == [i \in 1..Len(city_coords) |-> city_coords[i].index]
      categoryMaps ==
        [key \in {Numeral(city_idx) : city_idx \in CityIndexSet(city_coords)} |->
           map_files[quarter][category][
             CHOOSE city_idx \in CityIndexSet(city_coords) :
               Numeral(city_idx) = key]]
  IN  [quarter |-> quarter,
       category |-> category,
       color |-> [cityIdx \in SeqToSet(cityIndices) |->
                    ClientHeatmapColor(
                      percentage_data[quarter][category][cityNames[cityIdx + 1]],
                      minPercentage, maxPercentage)],
       src |-> [cityIdx \in SeqToSet(cityIndices) |->
                  categoryMaps[Numeral(cityIdx)]]]

NoPage == [quarter |-> <<>>, category |-> <<>>, color |-> <<>>, src |-> <<>>]

\* The window's load event: updateHeatmap() with the first option of each
\* selector selected.
PageLoad ==
  /\ pc = "maps_done"
  /\ raised = None
  /\ page' = HeatmapShown(quarters[1], categories[1])
  /\ pc' = "page_shown"
  /\ UNCHANGED <<scale_ranges, map_files, citymaps, server_color, raised,
                 heightVars, colorVars, cacheVars, aggVars>>

\* The user picks an option of the quarter selector: its onchange runs
\* updateHeatmap(), which reads both selectors.
SelectQuarter ==
  /\ pc = "page_shown"
  /\ \E qi \in 1..Len(quarters) :
       page' = HeatmapShown(quarters[qi], page.category)
  /\ UNCHANGED <<pc, scale_ranges, map_files, citymaps, server_color, raised,
                 heightVars, colorVars, cacheVars, aggVars>>

\* The user picks an option of the category selector.
SelectCategory ==
  /\ pc = "page_shown"
  /\ \E ci \in 1..Len(categories) :
       page' = HeatmapShown(page.quarter, categories[ci])
  /\ UNCHANGED <<pc, scale_ranges, map_files, citymaps, server_color, raised,
                 heightVars, colorVars, cacheVars, aggVars>>

-----------------------------------------------------------------------------
(* Specifications.  Each one starts a part of the program on arguments     *)
(* drawn from bounded sets and leaves the other parts idle.                *)

HeightIdle == building = NoRow /\ height = RInt(0) /\ converted = <<>>
ColorIdle == color_in = NoColorArguments /\ color_out = NoColorResult
CacheIdle ==
  /\ city_names = ConfiguredCities
  /\ fetch_i = 0
  /\ buildings_data = <<>>
  /\ pickle_file = <<>>
  /\ city_coords = <<>>
AggIdle ==
  /\ df = {}
  /\ quarters = <<>>
  /\ categories = <<>>
  /\ spending_data = NoTable
  /\ percentage_data = NoTable
MapIdle ==
  /\ scale_ranges = NoTable
  /\ map_files = NoTable
  /\ citymaps = <<>>
  /\ server_color = NoTable
  /\ page = NoPage

\* --- the height estimator and the geometry converter ------------------------
InitHeight ==
  /\ pc = "height_start"
  /\ building \in Rows
  /\ height = RInt(0)
  /\ converted = <<>>
  /\ raised = None
  /\ ColorIdle /\ CacheIdle /\ AggIdle /\ MapIdle
NextHeight == EstimateBuildingHeight \/ ConvertBuildingData
SpecHeight == InitHeight /\ [][NextHeight]_vars

\* --- the colour scale mapper ------------------------------------------------
InitColor ==
  /\ pc = "color_start"
  /\ color_in \in ColorArguments
  /\ color_out = NoColorResult
  /\ raised = None
  /\ HeightIdle /\ CacheIdle /\ AggIdle /\ MapIdle
NextColor == GetHeatmapColor
SpecColor == InitColor /\ [][NextColor]_vars

\* --- the building cache, fetch path -----------------------------------------
NumFetchCities == 11
\* A city list long enough for a checkpoint after the first.
FetchCityNames ==
  [i \in 1..NumFetchCities |->
     IF i <= Len(ConfiguredCities) THEN ConfiguredCities[i]
     ELSE "City " \o ToString(i)]

InitFetch ==
  /\ pc = "fetch_loop"
  /\ city_names = FetchCityNames
  /\ fetch_i = 0
  /\ buildings_data = <<>>
  /\ pickle_file = <<>>
  /\ city_coords = <<>>
  /\ raised = None
  /\ HeightIdle /\ ColorIdle /\ AggIdle /\ MapIdle
NextFetch == FetchCity \/ FetchFinish
SpecFetch == InitFetch /\ [][NextFetch]_vars

\* --- the building cache, load path, and the geocoder ------------------------
MaxBuildings == 3
\* The cache files of fetch runs in which every city was found: entry i is the
\* building list of city i, of any length up to MaxBuildings.
CachedBlobs(names) ==
  {[i \in 1..Len(names) |-> Buildings(names[i], len[i])] :
     len \in [1..Len(names) -> 0..MaxBuildings]}

InitLoad ==
  /\ pc = "load_start"
  /\ city_names = ConfiguredCities
  /\ fetch_i = 0
  /\ buildings_data = <<>>
  /\ pickle_file \in CachedBlobs(ConfiguredCities)
  /\ city_coords = <<>>
  /\ raised = None
  /\ HeightIdle /\ ColorIdle /\ AggIdle /\ MapIdle
NextLoad == LoadBuildingsData \/ GetCityCoords
SpecLoad == InitLoad /\ [][NextLoad]_vars

\* --- the spending aggregator -------------------------------------------------
MaxRows == 4
Q2013Q4 == <<"2", "0", "1", "3", "-", "Q", "4">>
Q2014Q1 == <<"2", "0", "1", "4", "-", "Q", "1">>
Food == <<"F", "o", "o", "d">>
Fuel == <<"F", "u", "e", "l">>
\* The cities the aggregator is run for: the first two configured ones.
AggregateCities == SubSeq(ConfiguredCities, 1, 2)
Amounts == {0, 1, 2}

TransactionRows ==
  [City : SeqToSet(AggregateCities), ExpType : {Food, Fuel},
   YearQuarter : {Q2013Q4, Q2014Q1}, Amount : Amounts]

\* The transaction tables of at most n distinct rows.
RECURSIVE TablesUpTo(_)
TablesUpTo(n) ==
  IF n = 0 THEN {{}}
  ELSE LET smaller == TablesUpTo(n - 1)
       IN  smaller \cup {t \cup {r} : t \in smaller, r \in TransactionRows}

InitAggregate ==
  /\ pc = "aggregate_start"
  /\ df \in TablesUpTo(MaxRows)
  /\ city_names = AggregateCities
  /\ quarters = <<>>
  /\ categories = <<>>
  /\ spending_data = NoTable
  /\ percentage_data = NoTable
  /\ fetch_i = 0
  /\ buildings_data = <<>>
  /\ pickle_file = <<>>
  /\ city_coords = <<>>
  /\ raised = None
  /\ HeightIdle /\ ColorIdle /\ MapIdle
NextAggregate == CalculateSpending
SpecAggregate == InitAggregate /\ [][NextAggregate]_vars

\* --- the report generator and the page --------------------------------------
CatSpace == <<"a", " ", "b">>
CatUnderscore == <<"a", "_", "b">>
CatSlash == <<"C", "/", "d">>
CategoryLabels == {CatSpace, CatUnderscore, CatSlash}
PercentageSamples == {RInt(0), RInt(1), RInt(3)}

\* The CityEntry list of the configured cities.
ReportCityCoords ==
  CityCoords(ConfiguredCities,
             [i \in 1..Len(ConfiguredCities) |-> Buildings(ConfiguredCities[i], 2)],
             [i \in 1..Len(ConfiguredCities) |-> TRUE])

\* A percentage table as the aggregator builds them, for the data quarters dqs
\* and the one or two real categories reals: "All Categories" is 100
\* everywhere; within a data quarter the real categories of a city add up to
\* 100 (share[dq, city] for the first, the rest for the second); and "All
\* Time" is the mean of the data quarters (quarters of equal totals).
DrawnTable(dqs, reals, share) ==
  LET first == Sorted(reals)[1]
      cell(dq, category, city) ==
        IF Cardinality(reals) = 1 THEN RInt(100)
        ELSE IF category = first THEN share[dq, city]
        ELSE RSub(RInt(100), share[dq, city])
      ordered == Sorted(dqs)
  IN  [quarter \in {AllTime} \cup dqs |->
        [category \in {AllCategories} \cup reals |->
          [city \in SeqToSet(ConfiguredCities) |->
            IF category = AllCategories THEN RInt(100)
            ELSE IF quarter # AllTime THEN cell(quarter, category, city)
            ELSE RDiv(RSumSeq([k \in 1..Len(ordered) |->
                                 cell(ordered[k], category, city)]),
                      RInt(Len(ordered)))]]]

DrawnTables(dqs, reals) ==
  {DrawnTable(dqs, reals, share) :
     share \in [dqs \X SeqToSet(ConfiguredCities) ->
                  IF Cardinality(reals) = 1 THEN {RInt(100)}
                  ELSE PercentageSamples]}

InitCitymaps ==
  /\ pc = "maps_start"
  /\ \E dqs \in (SUBSET {Q2013Q4, Q2014Q1}) \ {{}} :
     \E reals \in {c \in SUBSET CategoryLabels : Cardinality(c) \in {1, 2}} :
       /\ quarters = <<AllTime>> \o Sorted(dqs)
       /\ categories = <<AllCategories>> \o Sorted(reals)
       /\ percentage_data \in DrawnTables(dqs, reals)
  /\ df = {}
  /\ spending_data = NoTable
  /\ city_names = ConfiguredCities
  /\ fetch_i = 0
  /\ buildings_data = <<>>
  /\ pickle_file = <<>>
  /\ city_coords = ReportCityCoords
  /\ raised = None
  /\ HeightIdle /\ ColorIdle /\ MapIdle
NextCitymaps ==
  GenerateCitymaps \/ PageLoad \/ SelectQuarter \/ SelectCategory
SpecCitymaps == InitCitymaps /\ [][NextCitymaps]_vars

-----------------------------------------------------------------------------
(* Properties.                                                             *)

\* C1: calculate_spending_by_category_and_quarter completes without raising
\* for every transaction table, also when some configured city has a total of
\* zero in some quarter, and returns its percentage table.
C1_CompletesOnZeroTotal ==
  pc = "aggregate_done" =>
    /\ raised = None
    /\ percentage_data # NoTable
    /\ DOMAIN percentage_data = SeqToSet(quarters)

\* C2: on the cache-load path every CityEntry carries the (capped) building
\* list that the cache file holds for the entry's own city name.
C2_EntryHoldsOwnBuildings ==
  pc = "coords_ready" =>
    \A i \in 1..Len(city_coords) :
      \A j \in 1..Len(city_names) :
        city_names[j] = city_coords[i].name =>
          city_coords[i].buildings = CityBuildingsSubset(pickle_file[j])

\* C3: on the fetch path the persisted list is aligned with the city list at
\* every write: the entry at position i is the building list of city i.
C3_PersistedListAligned ==
  \A i \in 1..Len(pickle_file) : LiesIn(pickle_file[i], city_names[i])

\* C4: for min < max and min <= value <= max, get_heatmap_color returns three
\* channels that each lie in [0, 255].
C4_ChannelsInRange ==
  ( /\ pc = "color_done"
    /\ RLt(color_in.min_percentage, color_in.max_percentage)
    /\ RLe(color_in.min_percentage, color_in.percentage)
    /\ RLe(color_in.percentage, color_in.max_percentage) ) =>
    /\ color_out.raised = None
    /\ Len(color_out.color) = 3
    /\ \A ch \in 1..3 : color_out.color[ch] \in 0..255

\* C5: for min == max, get_heatmap_color does not raise and returns the colour
\* of the normalized position 0.5, [0, 255, 0].
C5_DegenerateRangeIsMidpoint ==
  (pc = "color_done" /\ color_in.min_percentage = color_in.max_percentage) =>
    /\ color_out.raised = None
    /\ color_out.color = <<0, 255, 0>>

C7_ArtifactPathsDistinct ==
  (pc \in {"maps_done", "page_shown"} /\ raised = None) =>
    /\ \A q1, q2 \in SeqToSet(quarters) :
       \A c1, c2 \in SeqToSet(categories) :
       \A i1, i2 \in CityIndexSet(city_coords) :
         <<q1, c1, i1>> # <<q2, c2, i2>> =>
           map_files[q1][c1][i1] # map_files[q2][c2][i2]
    /\ Cardinality(DOMAIN citymaps) =
         Len(quarters) * Len(categories) * Len(city_coords)

\* C8: in the returned tables, for every quarter and configured city, the
\* amounts stored under the real categories add up to the amount stored under
\* "All Categories".
C8_CategoriesSumToAllCategories ==
  (pc = "aggregate_done" /\ raised = None) =>
    \A quarter \in SeqToSet(quarters) :
    \A j \in 1..Len(city_names) :
      RSumSeq([k \in 1..(Len(categories) - 1) |->
                 spending_data[quarter][categories[k + 1]][city_names[j]]])
        = spending_data[quarter][AllCategories][city_names[j]]

\* Tables returned for two data quarters and two categories, with a city that
\* spent on both categories and whose quarter totals differ from its total.
C8_Witness ==
  /\ pc = "aggregate_done"
  /\ raised = None
  /\ Len(quarters) = 3
  /\ Len(categories) = 3
  /\ \E j \in 1..Len(city_names) :
       /\ spending_data[AllTime][Food][city_names[j]].n > 0
       /\ spending_data[AllTime][Fuel][city_names[j]].n > 0
       /\ \A qi \in 2..3 :
            spending_data[quarters[qi]][AllCategories][city_names[j]]
              # spending_data[AllTime][AllCategories][city_names[j]]

\* C9: for every triple the page shows, the colour the page's getHeatmapColor
\* computes from the embedded tables is the colour get_heatmap_color computed
\* for that triple.
C9_ClientColorIsServerColor ==
  pc = "page_shown" =>
    \A cityIdx \in DOMAIN page.color :
      page.color[cityIdx] = server_color[page.quarter][page.category][cityIdx]

\* The page on a data quarter and a real category whose three cities show
\* three different colours, none of them an end of the gradient.
C9_Witness ==
  /\ pc = "page_shown"
  /\ page.quarter # AllTime
  /\ page.category # AllCategories
  /\ Cardinality({page.color[cityIdx] : cityIdx \in DOMAIN page.color}) = 3
  /\ \E cityIdx \in DOMAIN page.color :
       page.color[cityIdx] \notin {<<0, 200, 200>>, <<255, 0, 0>>}

\* C11: for every min < max, get_heatmap_color(min, min, max) returns
\* [0, 200, 200], get_heatmap_color(max, min, max) returns [255, 0, 0] and
\* get_heatmap_color((min + max) / 2, min, max) returns [0, 255, 0].
C11_EndpointsAndMidpoint ==
  (pc = "color_done" /\ RLt(color_in.min_percentage, color_in.max_percentage)) =>
    LET middle == RDiv(RAdd(color_in.min_percentage, color_in.max_percentage),
                       RInt(2))
    IN  /\ color_in.percentage = color_in.min_percentage =>
             color_out = [raised |-> None, color |-> <<0, 200, 200>>]
        /\ color_in.percentage = color_in.max_percentage =>
             color_out = [raised |-> None, color |-> <<255, 0, 0>>]
        /\ color_in.percentage = middle =>
             color_out = [raised |-> None, color |-> <<0, 255, 0>>]

\* A call at the middle of a range of odd width: the middle is no whole
\* number and no end of the range, and the colour is the pure green.
C11_Witness ==
  /\ pc = "color_done"
  /\ RLt(color_in.min_percentage, color_in.max_percentage)
  /\ RAdd(color_in.percentage, color_in.percentage)
       = RAdd(color_in.min_percentage, color_in.max_percentage)
  /\ color_in.percentage.d = 2
  /\ color_out.color = <<0, 255, 0>>

\* C10: estimate_building_height returns a height greater than 0 for every
\* tag set, so every record of convert_building_data has height > 0.
C10_HeightPositive ==
  /\ pc = "height_estimated" => height.n > 0
  /\ pc = "height_converted" =>
       \A k \in 1..Len(converted) : converted[k].height.n > 0

\* C12: when the explicit height tag is present but fails to parse or parses
\* to a number <= 0, estimate_building_height falls through to the next rule:
\* it returns levels x 3.5 when a levels tag parses as a number and otherwise
\* a value in the range of the building type's bucket.
C12_NonPositiveHeightFallsThrough ==
  ( /\ pc \in {"height_estimated", "height_converted"}
    /\ HasTag(building.height)
    /\ \/ ~ExplicitHeight(building).ok
       \/ ExplicitHeight(building).value.n <= 0 ) =>
    LET type == IF building.type = None THEN "yes" ELSE building.type
        low == IF type \in HighTypes THEN 20
               ELSE IF type \in MediumTypes THEN 10
               ELSE IF type \in LowTypes THEN 5
               ELSE IF type \in VeryLowTypes THEN 3
               ELSE IF type \in ReligiousTypes THEN 15 ELSE 8
        high == IF type \in HighTypes THEN 40
                ELSE IF type \in MediumTypes THEN 20
                ELSE IF type \in LowTypes THEN 12
                ELSE IF type \in VeryLowTypes THEN 6
                ELSE IF type \in ReligiousTypes THEN 30 ELSE 18
        fellThrough ==
          IF HasTag(building.levels) /\ ExplicitLevels(building).ok
          THEN height = RMul(ExplicitLevels(building).value, Rat(7, 2))
          ELSE RLe(RInt(low), height) /\ RLt(height, RInt(high))
    IN  fellThrough

\* C12, amended: when the explicit height tag is present but fails to parse,
\* estimate_building_height falls through to the next rule (levels x 3.5 when
\* a levels tag parses as a number, otherwise a value in the range of the
\* building type's bucket); when the tag parses to a number <= 0 it returns
\* 15, whatever the levels tag and the building type are.
C12_UnparsableHeightFallsThrough ==
  (pc \in {"height_estimated", "height_converted"} /\ HasTag(building.height)) =>
    LET type == IF building.type = None THEN "yes" ELSE building.type
        low == IF type \in HighTypes THEN 20
               ELSE IF type \in MediumTypes THEN 10
               ELSE IF type \in LowTypes THEN 5
               ELSE IF type \in VeryLowTypes THEN 3
               ELSE IF type \in ReligiousTypes THEN 15 ELSE 8
        high == IF type \in HighTypes THEN 40
                ELSE IF type \in MediumTypes THEN 20
                ELSE IF type \in LowTypes THEN 12
                ELSE IF type \in VeryLowTypes THEN 6
                ELSE IF type \in ReligiousTypes THEN 30 ELSE 18
        fellThrough ==
          IF HasTag(building.levels) /\ ExplicitLevels(building).ok
          THEN height = RMul(ExplicitLevels(building).value, Rat(7, 2))
          ELSE RLe(RInt(low), height) /\ RLt(height, RInt(high))
    IN  /\ ~ExplicitHeight(building).ok => fellThrough
        /\ ( /\ ExplicitHeight(building).ok
             /\ ExplicitHeight(building).value.n <= 0 ) => height = RInt(15)

\* A row whose height tag does not parse and whose levels tag parses to a
\* positive number: the height is levels x 3.5, outside the range of the
\* row's building type.
C12_Witness ==
  /\ pc = "height_estimated"
  /\ HasTag(building.height)
  /\ ~ExplicitHeight(building).ok
  /\ HasTag(building.levels)
  /\ ExplicitLevels(building).ok
  /\ ExplicitLevels(building).value.n > 0
  /\ building.type \in HighTypes
  /\ height = RMul(ExplicitLevels(building).value, Rat(7, 2))
  /\ RLt(height, RInt(20))

=============================================================================
